---- MODULE Spec2Model ----
(***************************************************************************)
(* Session and access-control core of the SikshaPath API.                  *)
(*                                                                         *)
(* AuthService (register, login, refreshToken, logout, changePassword,     *)
(* forgotPassword, resetPassword, validateUserById, isTokenBlacklisted),   *)
(* JwtStrategy.validate, UsersService.deactivateUser / reactivateUser and  *)
(* ResourceGuard.canActivate, over the users table, the cache keys         *)
(* refresh_token:<id>, blacklist:<id>, reset_token:<id> and a clock in     *)
(* seconds.                                                                *)
(***************************************************************************)
EXTENDS Integers, FiniteSets, Sequences, TLC

(***************************************************************************)
(* Bounds of the exploration.                                              *)
(***************************************************************************)
MaxTicks == 1
MaxIssued == 4
MaxDeficit == 1
StartTime == 1000

(***************************************************************************)
(* Program constants, in seconds.                                          *)
(***************************************************************************)
jwtAccessExpiresIn == 3600
jwtRefreshExpiresIn == 604800
resetTokenExpiresIn == 3600
RefreshTokenTtl == 604800
BlacklistTtl == 86400
ResetTokenTtl == 3600

Ids == {1, 2}
Emails == {"a@x.com"}
Passwords == {"pw-one", "pw-two"}
Salts == {"salt-a"}
UserRole == {"student", "teacher", "admin"}
Undefined == "undefined"
TickSteps == {1, jwtAccessExpiresIn, BlacklistTtl}
Procs == {1, 2}
CourseIds == {"c1", "c2"}
EnrollmentIds == {"e1", "e2"}
Slugs == {"algebra", "physics"}
Prices == {0, 500}
\* request.user as JwtStrategy.validate attaches it: identities of the users table
Principals == {[id |-> "t1", role |-> "teacher"], [id |-> "t2", role |-> "teacher"],
               [id |-> "s1", role |-> "student"], [id |-> "a1", role |-> "admin"]}

None == [kind |-> "none"]

VARIABLES
    users,          \* users table: id -> row or None
    refreshStore,   \* cache key refresh_token:<id> -> [val, exp] or None
    blacklistStore, \* cache key blacklist:<id>     -> [val, exp] or None
    resetStore,     \* cache key reset_token:<id>   -> [val, exp] or None
    now,            \* clock, seconds since the epoch
    ticks,          \* number of clock advances taken (bounded)
    issued,         \* every token handed to a caller so far
    superseded,     \* refresh tokens issued before the latest login/refresh of their identity
    preLogout,      \* tokens issued to an identity before a completed logout of it
    postLogout,     \* access tokens minted by a login that followed a logout of the identity
    consumed,       \* reset tokens that a successful resetPassword has used
    revoked,        \* per identity: time of, and tokens issued before, its last logout or
                    \* password change, None once a login of it has succeeded since
    pc,             \* in-flight refresh or reset requests: position of each
    presented,      \* in-flight refresh or reset requests: the token presented
    minted,         \* in-flight refresh requests: the pair signed, not yet stored
    regPc,          \* in-flight register requests: position of each
    regReq,         \* in-flight register requests: the RegisterDto
    regResult,      \* in-flight register requests: outcome, once there is one
    courses,        \* courses table: id -> row or None
    enrollments,    \* enrollments table: set of rows
    decision        \* outcome of the last ResourceGuard.canActivate

sessionVars == <<users, refreshStore, blacklistStore, resetStore, now, ticks,
                 issued, superseded, preLogout, postLogout, consumed, revoked>>
raceVars == <<pc, presented, minted>>
regVars == <<regPc, regReq, regResult>>
guardVars == <<courses, enrollments, decision>>
vars == <<users, refreshStore, blacklistStore, resetStore, now, ticks,
          issued, superseded, preLogout, postLogout, consumed, revoked,
          pc, presented, minted, regPc, regReq, regResult,
          courses, enrollments, decision>>

(***************************************************************************)
(* Password Hasher: bcrypt.hash salts the hash, bcrypt.compare verifies.   *)
(***************************************************************************)
BcryptHash(password, salt) == [pw |-> password, salt |-> salt]

BcryptCompare(password, hash) == hash.pw = password

(***************************************************************************)
(* Token Codec.  A token is the signed claims; HS256 signing is a          *)
(* function of the claims, so two tokens with equal claims are the same    *)
(* string.  iat is the clock second of signing, exp = iat + expiresIn.     *)
(***************************************************************************)
SignAsync(sub, email, role, type, expiresIn) ==
    [sub |-> sub, email |-> email, role |-> role, type |-> type,
     iat |-> now, exp |-> now + expiresIn]

VerifyAsync(token) == now < token.exp

IsRefreshToken(t) == t.type = Undefined /\ t.exp - t.iat = jwtRefreshExpiresIn
IsAccessToken(t) == t.type = Undefined /\ t.exp - t.iat = jwtAccessExpiresIn
IsResetToken(t) == t.type = "reset"

(***************************************************************************)
(* Session Store: set(key, value, ttl), get(key), del(key).                *)
(***************************************************************************)
CacheSet(value, ttl) == [val |-> value, exp |-> now + ttl]

CacheLive(entry) == entry # None /\ now < entry.exp

CacheGet(entry) == IF CacheLive(entry) THEN entry.val ELSE None

(***************************************************************************)
(* Credential Store reads.                                                 *)
(***************************************************************************)
FindByEmail(email) == {id \in Ids : users[id] # None /\ users[id].email = email}

\* variant: the row is read by id alone, whatever its isActive flag
validateUserById_anyActive(userId) ==
    IF users[userId] # None THEN users[userId] ELSE None

validateUserById(userId) ==
    IF users[userId] # None /\ users[userId].isActive = "true"
    THEN users[userId] ELSE None

\* variant: a marker is read back even after its ttl has run out
isTokenBlacklisted_ignoreTtl(userId, tokenIssuedAt) ==
    IF blacklistStore[userId] # None /\ blacklistStore[userId].val # 0
    THEN blacklistStore[userId].val >= tokenIssuedAt
    ELSE FALSE

\* variant: a marker written in the very second of issue does not revoke
isTokenBlacklisted_strict(userId, tokenIssuedAt) ==
    IF CacheLive(blacklistStore[userId]) /\ blacklistStore[userId].val # 0
    THEN blacklistStore[userId].val > tokenIssuedAt
    ELSE FALSE

isTokenBlacklisted(userId, tokenIssuedAt) ==
    IF CacheLive(blacklistStore[userId]) /\ blacklistStore[userId].val # 0
    THEN blacklistStore[userId].val >= tokenIssuedAt
    ELSE FALSE

(***************************************************************************)
(* JwtStrategy: passport-jwt verifies signature and expiry, then validate. *)
(***************************************************************************)
validate(payload) ==
    IF validateUserById(payload.sub) = None THEN "Unauthorized"
    ELSE IF isTokenBlacklisted(payload.sub, IF payload.iat # 0 THEN payload.iat ELSE now)
         THEN "Unauthorized"
         ELSE "OK"

BearerStatus(token) ==
    IF ~VerifyAsync(token) THEN "Unauthorized" ELSE validate(token)

(***************************************************************************)
(* Outcomes of the handlers' checks, in the order the code makes them.     *)
(***************************************************************************)
\* variant: the result of the password comparison is read the wrong way round
LoginStatus_inverted(email, password) ==
    IF FindByEmail(email) = {} THEN "Unauthorized"
    ELSE LET foundUser == users[CHOOSE id \in FindByEmail(email) : TRUE] IN
         IF foundUser.isActive # "true" THEN "Unauthorized"
         ELSE IF BcryptCompare(password, foundUser.password) THEN "Unauthorized"
         ELSE "OK"

LoginStatus(email, password) ==
    IF FindByEmail(email) = {} THEN "Unauthorized"
    ELSE LET foundUser == users[CHOOSE id \in FindByEmail(email) : TRUE] IN
         IF foundUser.isActive # "true" THEN "Unauthorized"
         ELSE IF ~BcryptCompare(password, foundUser.password) THEN "Unauthorized"
         ELSE "OK"

\* the message of the exception login throws, "" when it returns tokens
LoginMessage(email, password) ==
    IF FindByEmail(email) = {} THEN "Invalid email or password"
    ELSE LET foundUser == users[CHOOSE id \in FindByEmail(email) : TRUE] IN
         IF foundUser.isActive # "true" THEN "Account has been deactivated"
         ELSE IF ~BcryptCompare(password, foundUser.password) THEN "Invalid email or password"
         ELSE ""

\* variant: any unexpired token passes while some refresh token is stored
RefreshStatus_presenceOnly(refreshToken) ==
    IF ~VerifyAsync(refreshToken) THEN "Unauthorized"
    ELSE LET storedToken == CacheGet(refreshStore[refreshToken.sub]) IN
         IF storedToken = None THEN "Unauthorized"
         ELSE IF validateUserById(refreshToken.sub) = None THEN "Unauthorized"
         ELSE "OK"

RefreshStatus(refreshToken) ==
    IF ~VerifyAsync(refreshToken) THEN "Unauthorized"
    ELSE LET storedToken == CacheGet(refreshStore[refreshToken.sub]) IN
         IF storedToken = None \/ storedToken # refreshToken THEN "Unauthorized"
         ELSE IF validateUserById(refreshToken.sub) = None THEN "Unauthorized"
         ELSE "OK"

\* variant: the current password is not compared with the stored hash
ChangePasswordStatus_noCompare(userId, currentPassword) ==
    IF validateUserById(userId) = None THEN "NotFound"
    ELSE "OK"

ChangePasswordStatus(userId, currentPassword) ==
    IF validateUserById(userId) = None THEN "NotFound"
    ELSE IF ~BcryptCompare(currentPassword, users[userId].password) THEN "BadRequest"
    ELSE "OK"

ResetStatus(resetToken) ==
    IF ~VerifyAsync(resetToken) THEN "Unauthorized"
    ELSE IF resetToken.type # "reset" THEN "Unauthorized"
    ELSE LET storedToken == CacheGet(resetStore[resetToken.sub]) IN
         IF storedToken = None \/ storedToken # resetToken THEN "Unauthorized"
         ELSE "OK"

(***************************************************************************)
(* Initial state: empty users table, empty cache.                          *)
(***************************************************************************)
Init ==
    /\ users = [id \in Ids |-> None]
    /\ refreshStore = [id \in Ids |-> None]
    /\ blacklistStore = [id \in Ids |-> None]
    /\ resetStore = [id \in Ids |-> None]
    /\ now = StartTime
    /\ ticks = 0
    /\ issued = {}
    /\ superseded = {}
    /\ preLogout = {}
    /\ postLogout = {}
    /\ consumed = {}
    /\ revoked = [id \in Ids |-> None]
    /\ pc = [p \in Procs |-> "idle"]
    /\ presented = [p \in Procs |-> None]
    /\ minted = [p \in Procs |-> None]
    /\ regPc = [p \in Procs |-> "idle"]
    /\ regReq = [p \in Procs |-> None]
    /\ regResult = [p \in Procs |-> None]
    /\ courses = [c \in CourseIds |-> None]
    /\ enrollments = {}
    /\ decision = "none"

\* what is remembered of a completed logout or password change of the identity
\* (accepted: the ones JwtStrategy accepted as bearer tokens at that moment)
Revocation(userId, by) ==
    [by |-> by, at |-> now, tokens |-> {t \in issued : t.sub = userId},
     accepted |-> {t \in issued : t.sub = userId /\ BearerStatus(t) = "OK"}]

CanIssue(tokens) == Cardinality(issued \cup tokens) <= MaxIssued

(***************************************************************************)
(* Time passes.                                                            *)
(***************************************************************************)
Tick(d) ==
    /\ ticks < MaxTicks
    /\ now' = now + d
    /\ ticks' = ticks + 1
    /\ UNCHANGED <<users, refreshStore, blacklistStore, resetStore, issued,
                   superseded, preLogout, postLogout, consumed, revoked>>

(***************************************************************************)
(* AuthService.register                                                    *)
(***************************************************************************)
register(email, password, role, salt) ==
    IF FindByEmail(email) # {}
    THEN /\ UNCHANGED <<users, refreshStore, blacklistStore, resetStore, now, ticks,
                        issued, superseded, preLogout, postLogout, consumed, revoked>>
    ELSE /\ \E id \in Ids : users[id] = None
         /\ LET id == CHOOSE i \in Ids : users[i] = None /\ \A j \in Ids : users[j] = None => i <= j
            IN /\ users' = [users EXCEPT ![id] =
                              [id |-> id,
                               email |-> email,
                               password |-> BcryptHash(password, salt),
                               role |-> IF role = Undefined THEN "student" ELSE role,
                               isVerified |-> "false",
                               isActive |-> "true"]]
         /\ UNCHANGED <<refreshStore, blacklistStore, resetStore, now, ticks,
                        issued, superseded, preLogout, postLogout, consumed, revoked>>

(***************************************************************************)
(* AuthService.login                                                       *)
(***************************************************************************)
LoginTokens(email) ==
    LET id == CHOOSE i \in FindByEmail(email) : TRUE
        foundUser == users[id]
    IN [accessToken |-> SignAsync(foundUser.id, foundUser.email, foundUser.role,
                                  Undefined, jwtAccessExpiresIn),
        refreshToken |-> SignAsync(foundUser.id, foundUser.email, foundUser.role,
                                   Undefined, jwtRefreshExpiresIn)]

login(email, password) ==
    IF LoginStatus(email, password) # "OK"
    THEN /\ UNCHANGED <<users, refreshStore, blacklistStore, resetStore, now, ticks,
                        issued, superseded, preLogout, postLogout, consumed, revoked>>
    ELSE LET id == CHOOSE i \in FindByEmail(email) : TRUE
             accessToken == LoginTokens(email).accessToken
             refreshToken == LoginTokens(email).refreshToken
         IN /\ CanIssue({accessToken, refreshToken})
            /\ refreshStore' = [refreshStore EXCEPT ![id] = CacheSet(refreshToken, RefreshTokenTtl)]
            /\ issued' = issued \cup {accessToken, refreshToken}
            /\ superseded' = superseded \cup {t \in issued : t.sub = id /\ IsRefreshToken(t)}
            /\ postLogout' = IF \E t \in preLogout : t.sub = id
                             THEN postLogout \cup {accessToken} ELSE postLogout
            /\ revoked' = [revoked EXCEPT ![id] = None]
            /\ UNCHANGED <<users, blacklistStore, resetStore, now, ticks, preLogout, consumed>>

(***************************************************************************)
(* AuthService.refreshToken                                                *)
(***************************************************************************)
refreshToken(token) ==
    IF RefreshStatus(token) # "OK"
    THEN /\ UNCHANGED <<users, refreshStore, blacklistStore, resetStore, now, ticks,
                        issued, superseded, preLogout, postLogout, consumed, revoked>>
    ELSE LET user == validateUserById(token.sub)
             id == token.sub
             accessToken == SignAsync(id, user.email, user.role, Undefined, jwtAccessExpiresIn)
             newRefreshToken == SignAsync(id, user.email, user.role, Undefined, jwtRefreshExpiresIn)
         IN /\ CanIssue({accessToken, newRefreshToken})
            /\ refreshStore' = [refreshStore EXCEPT ![id] = CacheSet(newRefreshToken, RefreshTokenTtl)]
            /\ issued' = issued \cup {accessToken, newRefreshToken}
            /\ superseded' = superseded \cup {t \in issued : t.sub = id /\ IsRefreshToken(t)}
            /\ UNCHANGED <<users, blacklistStore, resetStore, now, ticks,
                           preLogout, postLogout, consumed, revoked>>

(***************************************************************************)
(* AuthService.logout                                                      *)
(***************************************************************************)
\* variant: a marker that is still stored is left as it is
logout_keepMarker(userId) ==
    /\ refreshStore' = [refreshStore EXCEPT ![userId] = None]
    /\ blacklistStore' = [blacklistStore EXCEPT ![userId] =
                             IF CacheLive(@) THEN @ ELSE CacheSet(now, BlacklistTtl)]
    /\ preLogout' = preLogout \cup {t \in issued : t.sub = userId}
    /\ postLogout' = {t \in postLogout : t.sub # userId}
    /\ revoked' = [revoked EXCEPT ![userId] = Revocation(userId, "logout")]
    /\ UNCHANGED <<users, resetStore, now, ticks, issued, superseded, consumed>>

logout(userId) ==
    /\ refreshStore' = [refreshStore EXCEPT ![userId] = None]
    /\ blacklistStore' = [blacklistStore EXCEPT ![userId] = CacheSet(now, BlacklistTtl)]
    /\ preLogout' = preLogout \cup {t \in issued : t.sub = userId}
    /\ postLogout' = {t \in postLogout : t.sub # userId}
    /\ revoked' = [revoked EXCEPT ![userId] = Revocation(userId, "logout")]
    /\ UNCHANGED <<users, resetStore, now, ticks, issued, superseded, consumed>>

(***************************************************************************)
(* AuthService.changePassword                                              *)
(***************************************************************************)
\* variant: a revocation marker is written as logout does
changePassword_writesMarker(userId, currentPassword, newPassword, salt) ==
    IF ChangePasswordStatus(userId, currentPassword) # "OK"
    THEN /\ UNCHANGED <<users, refreshStore, blacklistStore, resetStore, now, ticks,
                        issued, superseded, preLogout, postLogout, consumed, revoked>>
    ELSE /\ users' = [users EXCEPT ![userId].password = BcryptHash(newPassword, salt)]
         /\ refreshStore' = [refreshStore EXCEPT ![userId] = None]
         /\ revoked' = [revoked EXCEPT ![userId] = Revocation(userId, "changePassword")]
         /\ blacklistStore' = [blacklistStore EXCEPT ![userId] = CacheSet(now, BlacklistTtl)]
         /\ UNCHANGED <<resetStore, now, ticks,
                        issued, superseded, preLogout, postLogout, consumed>>

\* variant: the stored refresh token is left in place
changePassword_keepRefresh(userId, currentPassword, newPassword, salt) ==
    IF ChangePasswordStatus(userId, currentPassword) # "OK"
    THEN /\ UNCHANGED <<users, refreshStore, blacklistStore, resetStore, now, ticks,
                        issued, superseded, preLogout, postLogout, consumed, revoked>>
    ELSE /\ users' = [users EXCEPT ![userId].password = BcryptHash(newPassword, salt)]
         /\ UNCHANGED refreshStore
         /\ revoked' = [revoked EXCEPT ![userId] = Revocation(userId, "changePassword")]
         /\ UNCHANGED <<blacklistStore, resetStore, now, ticks,
                        issued, superseded, preLogout, postLogout, consumed>>

changePassword(userId, currentPassword, newPassword, salt) ==
    IF ChangePasswordStatus(userId, currentPassword) # "OK"
    THEN /\ UNCHANGED <<users, refreshStore, blacklistStore, resetStore, now, ticks,
                        issued, superseded, preLogout, postLogout, consumed, revoked>>
    ELSE /\ users' = [users EXCEPT ![userId].password = BcryptHash(newPassword, salt)]
         /\ refreshStore' = [refreshStore EXCEPT ![userId] = None]
         /\ revoked' = [revoked EXCEPT ![userId] = Revocation(userId, "changePassword")]
         /\ UNCHANGED <<blacklistStore, resetStore, now, ticks,
                        issued, superseded, preLogout, postLogout, consumed>>

(***************************************************************************)
(* AuthService.forgotPassword                                              *)
(***************************************************************************)
\* what forgotPassword returns to the caller
ForgotPasswordResponse(email) ==
    IF FindByEmail(email) = {}
    THEN [message |-> "If the email exists, a password reset link has been sent",
          success |-> TRUE]
    ELSE [message |-> "If the email exists, a password reset link has been sent",
          success |-> TRUE]

\* variant: the reset token is signed but no copy is stored
forgotPassword_noStore(email) ==
    IF FindByEmail(email) = {}
    THEN /\ UNCHANGED <<users, refreshStore, blacklistStore, resetStore, now, ticks,
                        issued, superseded, preLogout, postLogout, consumed, revoked>>
    ELSE LET id == CHOOSE i \in FindByEmail(email) : TRUE
             resetToken == SignAsync(id, users[id].email, Undefined, "reset", resetTokenExpiresIn)
         IN /\ CanIssue({resetToken})
            /\ issued' = issued \cup {resetToken}
            /\ UNCHANGED <<users, refreshStore, blacklistStore, resetStore, now, ticks,
                           superseded, preLogout, postLogout, consumed, revoked>>

forgotPassword(email) ==
    IF FindByEmail(email) = {}
    THEN /\ UNCHANGED <<users, refreshStore, blacklistStore, resetStore, now, ticks,
                        issued, superseded, preLogout, postLogout, consumed, revoked>>
    ELSE LET id == CHOOSE i \in FindByEmail(email) : TRUE
             resetToken == SignAsync(id, users[id].email, Undefined, "reset", resetTokenExpiresIn)
         IN /\ CanIssue({resetToken})
            /\ resetStore' = [resetStore EXCEPT ![id] = CacheSet(resetToken, ResetTokenTtl)]
            /\ issued' = issued \cup {resetToken}
            /\ UNCHANGED <<users, refreshStore, blacklistStore, now, ticks,
                           superseded, preLogout, postLogout, consumed, revoked>>

(***************************************************************************)
(* AuthService.resetPassword                                               *)
(***************************************************************************)
resetPassword(resetToken, newPassword, salt) ==
    IF ResetStatus(resetToken) # "OK"
    THEN /\ UNCHANGED <<users, refreshStore, blacklistStore, resetStore, now, ticks,
                        issued, superseded, preLogout, postLogout, consumed, revoked>>
    ELSE LET id == resetToken.sub
         IN /\ users' = [users EXCEPT ![id].password = BcryptHash(newPassword, salt)]
            /\ resetStore' = [resetStore EXCEPT ![id] = None]
            /\ refreshStore' = [refreshStore EXCEPT ![id] = None]
            /\ consumed' = consumed \cup {resetToken}
            /\ revoked' = [revoked EXCEPT ![id] = Revocation(id, "resetPassword")]
            /\ UNCHANGED <<blacklistStore, now, ticks, issued, superseded,
                           preLogout, postLogout>>

(***************************************************************************)
(* An authenticated request: JwtAuthGuard runs JwtStrategy on the bearer   *)
(* token.                                                                  *)
(***************************************************************************)
authenticate(token) ==
    /\ UNCHANGED <<users, refreshStore, blacklistStore, resetStore, now, ticks,
                   issued, superseded, preLogout, postLogout, consumed, revoked>>

(***************************************************************************)
(* UsersService.deactivateUser / reactivateUser                            *)
(***************************************************************************)
deactivateUser(userId) ==
    IF users[userId] = None
    THEN /\ UNCHANGED <<users, refreshStore, blacklistStore, resetStore, now, ticks,
                        issued, superseded, preLogout, postLogout, consumed, revoked>>
    ELSE /\ users' = [users EXCEPT ![userId].isActive = "false"]
         /\ UNCHANGED <<refreshStore, blacklistStore, resetStore, now, ticks,
                        issued, superseded, preLogout, postLogout, consumed, revoked>>

\* variant: reactivation also drops the stored refresh token
reactivateUser_dropsRefresh(userId) ==
    IF users[userId] = None
    THEN /\ UNCHANGED <<users, refreshStore, blacklistStore, resetStore, now, ticks,
                        issued, superseded, preLogout, postLogout, consumed, revoked>>
    ELSE /\ users' = [users EXCEPT ![userId].isActive = "true"]
         /\ refreshStore' = [refreshStore EXCEPT ![userId] = None]
         /\ UNCHANGED <<blacklistStore, resetStore, now, ticks,
                        issued, superseded, preLogout, postLogout, consumed, revoked>>

reactivateUser(userId) ==
    IF users[userId] = None
    THEN /\ UNCHANGED <<users, refreshStore, blacklistStore, resetStore, now, ticks,
                        issued, superseded, preLogout, postLogout, consumed, revoked>>
    ELSE /\ users' = [users EXCEPT ![userId].isActive = "true"]
         /\ UNCHANGED <<refreshStore, blacklistStore, resetStore, now, ticks,
                        issued, superseded, preLogout, postLogout, consumed, revoked>>

(***************************************************************************)
(* The session core: every handler run to completion, one request at a     *)
(* time, with inputs from small sets.                                      *)
(***************************************************************************)
SessionRoles == {Undefined}

Advance == \E d \in TickSteps : Tick(d) /\ UNCHANGED <<raceVars, regVars, guardVars>>

Register ==
    \E e \in Emails, p \in Passwords, r \in SessionRoles, s \in Salts :
        register(e, p, r, s) /\ UNCHANGED <<raceVars, regVars, guardVars>>

Login == \E e \in Emails, p \in Passwords : login(e, p) /\ UNCHANGED <<raceVars, regVars, guardVars>>

Refresh == \E t \in issued : refreshToken(t) /\ UNCHANGED <<raceVars, regVars, guardVars>>

Logout == \E id \in Ids : users[id] # None /\ logout(id) /\ UNCHANGED <<raceVars, regVars, guardVars>>

ChangePassword ==
    \E id \in Ids, c \in Passwords, n \in Passwords, s \in Salts :
        users[id] # None /\ changePassword(id, c, n, s) /\ UNCHANGED <<raceVars, regVars, guardVars>>

ForgotPassword == \E e \in Emails : forgotPassword(e) /\ UNCHANGED <<raceVars, regVars, guardVars>>

ResetPassword ==
    \E t \in issued, n \in Passwords, s \in Salts :
        resetPassword(t, n, s) /\ UNCHANGED <<raceVars, regVars, guardVars>>

Authenticate == \E t \in issued : authenticate(t) /\ UNCHANGED <<raceVars, regVars, guardVars>>

Deactivate == \E id \in Ids : deactivateUser(id) /\ UNCHANGED <<raceVars, regVars, guardVars>>

Reactivate == \E id \in Ids : reactivateUser(id) /\ UNCHANGED <<raceVars, regVars, guardVars>>

Next ==
    \/ Advance
    \/ Register
    \/ Login
    \/ Refresh
    \/ Logout
    \/ ChangePassword
    \/ ForgotPassword
    \/ ResetPassword
    \/ Authenticate
    \/ Deactivate
    \/ Reactivate

Spec == Init /\ [][Next]_vars

(***************************************************************************)
(* Concurrent requests.  refreshToken awaits between its cache read, its   *)
(* two signAsync calls and its cache write, so two refresh requests        *)
(* interleave at those points.                                             *)
(***************************************************************************)
InFlight(p) == pc[p] \in {"checked", "signed"}

\* verifyAsync, cacheManager.get, the comparison and validateUserById
refreshCheck(p, token) ==
    /\ pc[p] = "idle"
    /\ IF RefreshStatus(token) # "OK"
       THEN /\ UNCHANGED <<pc, presented, minted>>
       ELSE /\ pc' = [pc EXCEPT ![p] = "checked"]
            /\ presented' =
                 [q \in Procs |->
                    IF q = p
                    THEN [token |-> token, user |-> validateUserById(token.sub),
                          overlap |-> \E o \in Procs \ {p} : InFlight(o)]
                    ELSE IF InFlight(q)
                         THEN [presented[q] EXCEPT !.overlap = TRUE]
                         ELSE presented[q]]
            /\ UNCHANGED <<minted>>
    /\ UNCHANGED <<users, refreshStore, blacklistStore, resetStore, now, ticks,
                   issued, superseded, preLogout, postLogout, consumed, revoked>>

\* the two signAsync calls
refreshSign(p) ==
    /\ pc[p] = "checked"
    /\ LET user == presented[p].user
       IN minted' = [minted EXCEPT ![p] =
            [accessToken |-> SignAsync(user.id, user.email, user.role,
                                       Undefined, jwtAccessExpiresIn),
             refreshToken |-> SignAsync(user.id, user.email, user.role,
                                        Undefined, jwtRefreshExpiresIn)]]
    /\ pc' = [pc EXCEPT ![p] = "signed"]
    /\ UNCHANGED <<presented, sessionVars>>

\* cacheManager.set and the response
refreshSet(p) ==
    /\ pc[p] = "signed"
    /\ CanIssue({minted[p].accessToken, minted[p].refreshToken})
    /\ LET id == presented[p].user.id
       IN /\ refreshStore' = [refreshStore EXCEPT ![id] =
                                CacheSet(minted[p].refreshToken, RefreshTokenTtl)]
          /\ superseded' = superseded \cup {t \in issued : t.sub = id /\ IsRefreshToken(t)}
    /\ issued' = issued \cup {minted[p].accessToken, minted[p].refreshToken}
    /\ pc' = [pc EXCEPT ![p] = "done"]
    /\ UNCHANGED <<presented, minted, users, blacklistStore, resetStore, now, ticks,
                   preLogout, postLogout, consumed, revoked>>

\* the caller has its response; the request slot is free again
refreshReturn(p) ==
    /\ pc[p] = "done"
    /\ pc' = [pc EXCEPT ![p] = "idle"]
    /\ presented' = [presented EXCEPT ![p] = None]
    /\ minted' = [minted EXCEPT ![p] = None]
    /\ UNCHANGED sessionVars

RefreshCheck == \E p \in Procs, t \in issued : refreshCheck(p, t) /\ UNCHANGED <<regVars, guardVars>>

RefreshSign == \E p \in Procs : refreshSign(p) /\ UNCHANGED <<regVars, guardVars>>

RefreshSet == \E p \in Procs : refreshSet(p) /\ UNCHANGED <<regVars, guardVars>>

RefreshReturn == \E p \in Procs : refreshReturn(p) /\ UNCHANGED <<regVars, guardVars>>

NextRace ==
    \/ Advance
    \/ Register
    \/ Login
    \/ RefreshCheck
    \/ RefreshSign
    \/ RefreshSet
    \/ RefreshReturn

SpecRace == Init /\ [][NextRace]_vars

\* the same requests, with logout arriving between the steps of a refresh
NextLogoutRace ==
    \/ Advance
    \/ Register
    \/ Login
    \/ Logout
    \/ RefreshCheck
    \/ RefreshSign
    \/ RefreshSet
    \/ RefreshReturn

SpecLogoutRace == Init /\ [][NextLogoutRace]_vars

(***************************************************************************)
(* Concurrent resetPassword requests.  resetPassword awaits between its    *)
(* cache read, bcrypt.hash, the users update and its two cache deletes, so *)
(* two reset requests interleave at those points.                          *)
(***************************************************************************)
ResetInFlight(p) == pc[p] \in {"resetChecked", "resetUpdated"}

\* verifyAsync, the type test, cacheManager.get and the comparison
resetCheck(p, resetToken, newPassword, salt) ==
    /\ pc[p] = "idle"
    /\ IF ResetStatus(resetToken) # "OK"
       THEN /\ UNCHANGED <<pc, presented, minted>>
       ELSE /\ pc' = [pc EXCEPT ![p] = "resetChecked"]
            /\ presented' =
                 [q \in Procs |->
                    IF q = p
                    THEN [token |-> resetToken, newPassword |-> newPassword, salt |-> salt,
                          overlap |-> \E o \in Procs \ {p} : ResetInFlight(o)]
                    ELSE IF ResetInFlight(q)
                         THEN [presented[q] EXCEPT !.overlap = TRUE]
                         ELSE presented[q]]
            /\ UNCHANGED <<minted>>
    /\ UNCHANGED sessionVars

\* bcrypt.hash and the update of users.password
resetUpdate(p) ==
    /\ pc[p] = "resetChecked"
    /\ LET id == presented[p].token.sub
       IN users' = IF users[id] = None THEN users
                   ELSE [users EXCEPT ![id].password =
                           BcryptHash(presented[p].newPassword, presented[p].salt)]
    /\ pc' = [pc EXCEPT ![p] = "resetUpdated"]
    /\ UNCHANGED <<presented, minted, refreshStore, blacklistStore, resetStore, now, ticks,
                   issued, superseded, preLogout, postLogout, consumed, revoked>>

\* the two cacheManager.del calls and the response
resetDelete(p) ==
    /\ pc[p] = "resetUpdated"
    /\ LET id == presented[p].token.sub
       IN /\ resetStore' = [resetStore EXCEPT ![id] = None]
          /\ refreshStore' = [refreshStore EXCEPT ![id] = None]
          /\ revoked' = [revoked EXCEPT ![id] = Revocation(id, "resetPassword")]
    /\ consumed' = consumed \cup {presented[p].token}
    /\ pc' = [pc EXCEPT ![p] = "resetDone"]
    /\ UNCHANGED <<presented, minted, users, blacklistStore, now, ticks, issued,
                   superseded, preLogout, postLogout>>

\* the caller has its response; the request slot is free again
resetReturn(p) ==
    /\ pc[p] = "resetDone"
    /\ pc' = [pc EXCEPT ![p] = "idle"]
    /\ presented' = [presented EXCEPT ![p] = None]
    /\ UNCHANGED <<minted, sessionVars>>

ResetCheck ==
    \E p \in Procs, t \in issued, n \in Passwords, sa \in Salts :
        resetCheck(p, t, n, sa) /\ UNCHANGED <<regVars, guardVars>>

ResetUpdate == \E p \in Procs : resetUpdate(p) /\ UNCHANGED <<regVars, guardVars>>

ResetDelete == \E p \in Procs : resetDelete(p) /\ UNCHANGED <<regVars, guardVars>>

ResetReturn == \E p \in Procs : resetReturn(p) /\ UNCHANGED <<regVars, guardVars>>

NextResetRace ==
    \/ Advance
    \/ Register
    \/ ForgotPassword
    \/ ResetCheck
    \/ ResetUpdate
    \/ ResetDelete
    \/ ResetReturn

SpecResetRace == Init /\ [][NextResetRace]_vars

(***************************************************************************)
(* Concurrent register requests.  register awaits between its select by    *)
(* email and its insert; users.email carries a unique constraint, so an     *)
(* insert of an email that is present is refused by the database and the   *)
(* query error propagates to the caller.                                   *)
(***************************************************************************)
RegisterDtos ==
    [email : Emails, password : Passwords, role : UserRole \cup {Undefined}, salt : Salts]

\* the select by email and the ConflictException
registerSelect(p, dto) ==
    /\ regPc[p] = "idle"
    /\ regReq' = [regReq EXCEPT ![p] = dto]
    /\ IF FindByEmail(dto.email) # {}
       THEN /\ regPc' = [regPc EXCEPT ![p] = "done"]
            /\ regResult' = [regResult EXCEPT ![p] = "Conflict"]
       ELSE /\ regPc' = [regPc EXCEPT ![p] = "selected"]
            /\ regResult' = [regResult EXCEPT ![p] = None]
    /\ UNCHANGED sessionVars

\* bcrypt.hash and the insert
registerInsert(p) ==
    /\ regPc[p] = "selected"
    /\ regPc' = [regPc EXCEPT ![p] = "done"]
    /\ LET dto == regReq[p] IN
       IF FindByEmail(dto.email) # {}
       THEN /\ regResult' = [regResult EXCEPT ![p] = "QueryFailed"]
            /\ UNCHANGED users
       ELSE /\ \E id \in Ids : users[id] = None
            /\ LET id == CHOOSE i \in Ids :
                            users[i] = None /\ \A j \in Ids : users[j] = None => i <= j
               IN users' = [users EXCEPT ![id] =
                              [id |-> id,
                               email |-> dto.email,
                               password |-> BcryptHash(dto.password, dto.salt),
                               role |-> IF dto.role = Undefined THEN "student" ELSE dto.role,
                               isVerified |-> "false",
                               isActive |-> "true"]]
            /\ regResult' = [regResult EXCEPT ![p] = "OK"]
    /\ UNCHANGED <<regReq, refreshStore, blacklistStore, resetStore, now, ticks,
                   issued, superseded, preLogout, postLogout, consumed, revoked>>

\* the response has been sent; the worker takes the next request
registerReturn(p) ==
    /\ regPc[p] = "done"
    /\ regPc' = [regPc EXCEPT ![p] = "idle"]
    /\ UNCHANGED <<regReq, regResult, sessionVars>>

RegisterSelect ==
    \E p \in Procs, dto \in RegisterDtos :
        registerSelect(p, dto) /\ UNCHANGED <<raceVars, guardVars>>

RegisterInsert == \E p \in Procs : registerInsert(p) /\ UNCHANGED <<raceVars, guardVars>>

RegisterReturn == \E p \in Procs : registerReturn(p) /\ UNCHANGED <<raceVars, guardVars>>

NextRegister ==
    \/ RegisterSelect
    \/ RegisterInsert
    \/ RegisterReturn
    \/ Deactivate

SpecRegister == Init /\ [][NextRegister]_vars

(***************************************************************************)
(* Access Resolver: ResourceGuard over the courses and enrollments tables. *)
(***************************************************************************)
OWN == "own"
ENROLLED == "enrolled"
ADMIN == "admin"
PUBLIC == "public"
ResourceAction == {OWN, ENROLLED, ADMIN, PUBLIC}

\* resource.decorators.ts
OwnResource == <<OWN, ADMIN>>
EnrolledOrOwnResource == <<ENROLLED, OWN, ADMIN>>
PublicResource == <<PUBLIC, ADMIN>>
AdminResource == <<ADMIN>>

NoUser == [id |-> "", role |-> ""]
\* no resourceActions metadata on the handler or the class
NoActions == <<Undefined>>

\* variant: the query field is tried before the request body
extractResourceId_queryFirst(request) ==
    IF request.params.id # "" THEN request.params.id
    ELSE IF request.params.courseId # "" THEN request.params.courseId
    ELSE IF request.query.courseId # "" THEN request.query.courseId
    ELSE IF request.body.courseId # "" THEN request.body.courseId
    ELSE ""

extractResourceId(request) ==
    IF request.params.id # "" THEN request.params.id
    ELSE IF request.params.courseId # "" THEN request.params.courseId
    ELSE IF request.body.courseId # "" THEN request.body.courseId
    ELSE IF request.query.courseId # "" THEN request.query.courseId
    ELSE ""

checkResourceExists(resourceId) ==
    resourceId \in CourseIds /\ courses[resourceId] # None

\* variant: the course row is looked up without comparing its teacherId
checkOwnership_anyUser(resourceId, userId) ==
    /\ resourceId \in CourseIds
    /\ courses[resourceId] # None

checkOwnership(resourceId, userId) ==
    /\ resourceId \in CourseIds
    /\ courses[resourceId] # None
    /\ courses[resourceId].teacherId = userId

\* variant: an enrollment counts whatever its status
checkEnrollment_anyStatus(resourceId, userId) ==
    \E e \in enrollments :
        e.courseId = resourceId /\ e.studentId = userId

\* variant: only a completed enrollment counts
checkEnrollment_completedOnly(resourceId, userId) ==
    \E e \in enrollments :
        e.courseId = resourceId /\ e.studentId = userId /\ e.status = "completed"

checkEnrollment(resourceId, userId) ==
    \E e \in enrollments :
        e.courseId = resourceId /\ e.studentId = userId /\ e.status = "active"

\* variant: the loop gives up at the first action that does not grant access
CheckActions_firstOnly(requiredActions, i, resourceId, user) ==
    IF i > Len(requiredActions) THEN "Forbidden"
    ELSE LET action == requiredActions[i] IN
         IF action = OWN /\ checkOwnership(resourceId, user.id) THEN "allow"
         ELSE IF action = ENROLLED /\ checkEnrollment(resourceId, user.id) THEN "allow"
         ELSE IF action = PUBLIC THEN "allow"
         ELSE "Forbidden"

\* the loop over requiredActions, from position i on
RECURSIVE CheckActions(_, _, _, _)
CheckActions(requiredActions, i, resourceId, user) ==
    IF i > Len(requiredActions) THEN "Forbidden"
    ELSE LET action == requiredActions[i] IN
         IF action = OWN /\ checkOwnership(resourceId, user.id) THEN "allow"
         ELSE IF action = ENROLLED /\ checkEnrollment(resourceId, user.id) THEN "allow"
         ELSE IF action = PUBLIC THEN "allow"
         ELSE CheckActions(requiredActions, i + 1, resourceId, user)

\* requiredActions.join(', ')
RECURSIVE Join(_, _)
Join(requiredActions, i) ==
    IF i > Len(requiredActions) THEN ""
    ELSE IF i = Len(requiredActions) THEN requiredActions[i]
    ELSE requiredActions[i] \o ", " \o Join(requiredActions, i + 1)

\* the message of the ForbiddenException canActivate throws
ForbiddenMessage(requiredActions, user) ==
    IF user = NoUser THEN "Authentication required"
    ELSE "Access denied. Required permissions: " \o Join(requiredActions, 1)

\* variant: the admin override runs before the existence check
canActivate_overrideFirst(isPublic, requiredActions, user, request) ==
    IF isPublic THEN "allow"
    ELSE IF requiredActions = NoActions \/ Len(requiredActions) = 0 THEN "allow"
    ELSE IF user = NoUser THEN "Forbidden"
    ELSE IF user.role = "admin" /\ \E i \in 1..Len(requiredActions) :
                                      requiredActions[i] = ADMIN
         THEN "allow"
         ELSE LET resourceId == extractResourceId(request) IN
              IF resourceId = "" THEN "NotFound"
              ELSE IF ~checkResourceExists(resourceId) THEN "NotFound"
              ELSE CheckActions(requiredActions, 1, resourceId, user)

\* variant: no admin override before the loop
canActivate_noOverride(isPublic, requiredActions, user, request) ==
    IF isPublic THEN "allow"
    ELSE IF requiredActions = NoActions \/ Len(requiredActions) = 0 THEN "allow"
    ELSE IF user = NoUser THEN "Forbidden"
    ELSE LET resourceId == extractResourceId(request) IN
         IF resourceId = "" THEN "NotFound"
         ELSE IF ~checkResourceExists(resourceId) THEN "NotFound"
         ELSE CheckActions(requiredActions, 1, resourceId, user)

\* variant: the identity is tested before the resource policy is read
canActivate_userFirst(isPublic, requiredActions, user, request) ==
    IF isPublic THEN "allow"
    ELSE IF user = NoUser THEN "Forbidden"
    ELSE IF requiredActions = NoActions \/ Len(requiredActions) = 0 THEN "allow"
    ELSE LET resourceId == extractResourceId(request) IN
         IF resourceId = "" THEN "NotFound"
         ELSE IF ~checkResourceExists(resourceId) THEN "NotFound"
         ELSE IF user.role = "admin" /\ \E i \in 1..Len(requiredActions) :
                                           requiredActions[i] = ADMIN
              THEN "allow"
              ELSE CheckActions(requiredActions, 1, resourceId, user)

canActivate(isPublic, requiredActions, user, request) ==
    IF isPublic THEN "allow"
    ELSE IF requiredActions = NoActions \/ Len(requiredActions) = 0 THEN "allow"
    ELSE IF user = NoUser THEN "Forbidden"
    ELSE LET resourceId == extractResourceId(request) IN
         IF resourceId = "" THEN "NotFound"
         ELSE IF ~checkResourceExists(resourceId) THEN "NotFound"
         ELSE IF user.role = "admin" /\ \E i \in 1..Len(requiredActions) :
                                           requiredActions[i] = ADMIN
              THEN "allow"
              ELSE CheckActions(requiredActions, 1, resourceId, user)

\* CoursesService.create
create(slug, price, teacherId) ==
    /\ \A c \in CourseIds : courses[c] # None => courses[c].slug # slug
    /\ \E c \in CourseIds : courses[c] = None
    /\ LET id == CHOOSE c \in CourseIds : courses[c] = None
       IN courses' = [courses EXCEPT ![id] =
                        [teacherId |-> teacherId, slug |-> slug, status |-> "draft",
                         price |-> price, enrollmentCount |-> 0]]
    /\ UNCHANGED <<enrollments, decision>>

\* CoursesService.publish
publish(id, userId) ==
    /\ courses[id] # None
    /\ courses[id].teacherId = userId
    /\ courses[id].status # "published"
    /\ courses' = [courses EXCEPT ![id].status = "published"]
    /\ UNCHANGED <<enrollments, decision>>

\* the outcome of a service call: the exception it throws, or OK
Outcome(kind, message) == [kind |-> kind, message |-> message]

\* select role from users where id = userId, for the accounts of Principals
RoleOf(userId) ==
    IF \E p \in Principals : p.id = userId
    THEN (CHOOSE p \in Principals : p.id = userId).role
    ELSE ""

\* CoursesService.update, up to its ownership check
UpdateStatus(id, userId) ==
    IF courses[id] = None THEN Outcome("NotFound", "Course not found")
    ELSE IF userId # courses[id].teacherId /\ RoleOf(userId) # "admin"
         THEN Outcome("Forbidden", "You can only update your own courses")
         ELSE Outcome("OK", "")

\* CoursesService.delete
DeleteStatus(id, userId) ==
    IF courses[id] = None THEN Outcome("NotFound", "Course not found")
    ELSE IF courses[id].teacherId # userId
         THEN Outcome("Forbidden", "You can only delete your own courses")
    ELSE IF \E e \in enrollments : e.courseId = id
         THEN Outcome("Forbidden", "Cannot delete course with active enrollments")
         ELSE Outcome("OK", "")

\* CoursesService.publish
PublishStatus(id, userId) ==
    IF courses[id] = None THEN Outcome("NotFound", "Course not found")
    ELSE IF courses[id].teacherId # userId
         THEN Outcome("Forbidden", "You can only publish your own courses")
    ELSE IF courses[id].status = "published"
         THEN Outcome("Conflict", "Course is already published")
         ELSE Outcome("OK", "")

\* CoursesService.unpublish
UnpublishStatus(id, userId) ==
    IF courses[id] = None THEN Outcome("NotFound", "Course not found")
    ELSE IF courses[id].teacherId # userId
         THEN Outcome("Forbidden", "You can only unpublish your own courses")
    ELSE IF courses[id].status # "published"
         THEN Outcome("Conflict", "Course is not published")
         ELSE Outcome("OK", "")

\* CoursesService.unpublish, the successful call
unpublish(id, userId) ==
    /\ UnpublishStatus(id, userId).kind = "OK"
    /\ courses' = [courses EXCEPT ![id].status = "draft"]
    /\ UNCHANGED <<enrollments, decision>>

\* CoursesService.delete, the successful call
delete(id, userId) ==
    /\ DeleteStatus(id, userId).kind = "OK"
    /\ courses' = [courses EXCEPT ![id] = None]
    /\ UNCHANGED <<enrollments, decision>>

\* EnrollmentsService.enrollStudent
enrollStudent(studentId, courseId) ==
    /\ courses[courseId] # None
    /\ courses[courseId].status = "published"
    /\ ~\E e \in enrollments :
          /\ e.studentId = studentId
          /\ e.courseId = courseId
          /\ e.status \in {"active", "completed"}
    /\ ~(courses[courseId].price > 0)
    /\ \E n \in EnrollmentIds : \A e \in enrollments : e.id # n
    /\ LET id == CHOOSE n \in EnrollmentIds : \A e \in enrollments : e.id # n
       IN enrollments' = enrollments \cup
             {[id |-> id, studentId |-> studentId,
               courseId |-> courseId, status |-> "active",
               progressPercentage |-> 0]}
    /\ courses' = [courses EXCEPT ![courseId].enrollmentCount = @ + 1]
    /\ UNCHANGED decision

\* EnrollmentsService.unenrollStudent
unenrollStudent(enrollmentId, studentId) ==
    \E e \in enrollments :
        /\ e.id = enrollmentId
        /\ e.studentId = studentId
        /\ e.status # "completed"
        /\ enrollments' = (enrollments \ {e}) \cup {[e EXCEPT !.status = "cancelled"]}
        /\ courses' = [courses EXCEPT ![e.courseId].enrollmentCount = @ - 1]
        /\ UNCHANGED decision

\* the progress figures a student reports: part of the way, and all of it
ProgressValues == {50, 100}

\* EnrollmentsService.updateProgress
updateProgress(enrollmentId, studentId, progressPercentage) ==
    \E e \in enrollments :
        /\ e.id = enrollmentId
        /\ e.studentId = studentId
        /\ e.status = "active"
        /\ enrollments' = (enrollments \ {e}) \cup
              {[e EXCEPT !.progressPercentage = progressPercentage,
                         !.status = IF progressPercentage >= 100
                                    THEN "completed" ELSE @]}
        /\ UNCHANGED <<courses, decision>>

\* every list ResourceAccess(...actions) can carry without naming an action twice
PolicyLists ==
    {pl \in {<<a>> : a \in ResourceAction}
             \cup {<<a, b>> : a, b \in ResourceAction}
             \cup {<<a, b, c>> : a, b, c \in ResourceAction}
             \cup {<<a, b, c, d>> : a, b, c, d \in ResourceAction} :
        \A i, j \in 1..Len(pl) : pl[i] = pl[j] => i = j}

Includes(requiredActions, action) ==
    \E i \in 1..Len(requiredActions) : requiredActions[i] = action

ResourceIds == CourseIds \cup {"", "c9"}

Request(paramsId, paramsCourseId, bodyCourseId, queryCourseId) ==
    [params |-> [id |-> paramsId, courseId |-> paramsCourseId],
     body |-> [courseId |-> bodyCourseId],
     query |-> [courseId |-> queryCourseId]]

\* the routes the controllers declare: /courses/:id, or a body courseId
RouteRequests ==
    {Request(c, "", "", "") : c \in ResourceIds} \cup
    {Request("", "", c, "") : c \in CourseIds}

\* the guarded handlers: @Public(), no metadata, or one of the decorators
GuardCalls ==
    {[isPublic |-> TRUE, actions |-> NoActions]} \cup
    {[isPublic |-> FALSE, actions |-> pl] :
        pl \in {NoActions, OwnResource, EnrolledOrOwnResource,
                PublicResource, AdminResource}}

Create ==
    \E sl \in Slugs, pr \in Prices, u \in Principals :
        u.role = "teacher" /\ create(sl, pr, u.id) /\ UNCHANGED <<sessionVars, raceVars, regVars>>

Publish ==
    \E c \in CourseIds, u \in Principals :
        publish(c, u.id) /\ UNCHANGED <<sessionVars, raceVars, regVars>>

Unpublish ==
    \E c \in CourseIds, u \in Principals :
        unpublish(c, u.id) /\ UNCHANGED <<sessionVars, raceVars, regVars>>

Delete ==
    \E c \in CourseIds, u \in Principals :
        delete(c, u.id) /\ UNCHANGED <<sessionVars, raceVars, regVars>>

\* the callers that enroll: the student and a teacher
Enrollers == {u \in Principals : u.id \in {"s1", "t2"}}

Enroll ==
    \E u \in Enrollers, c \in CourseIds :
        enrollStudent(u.id, c) /\ UNCHANGED <<sessionVars, raceVars, regVars>>

\* enrollmentCount has no lower limit in the code; the exploration stops at -MaxDeficit
Unenroll ==
    \E u \in Enrollers, n \in EnrollmentIds :
        /\ unenrollStudent(n, u.id)
        /\ \A c \in CourseIds : courses'[c] # None => courses'[c].enrollmentCount + MaxDeficit >= 0
        /\ UNCHANGED <<sessionVars, raceVars, regVars>>

Guard ==
    \E call \in GuardCalls, u \in Principals \cup {NoUser}, r \in RouteRequests :
        /\ decision' = canActivate(call.isPublic, call.actions, u, r)
        /\ UNCHANGED <<courses, enrollments, sessionVars, raceVars, regVars>>

NextGuard ==
    \/ Create
    \/ Publish
    \/ Unpublish
    \/ Delete
    \/ Enroll
    \/ Unenroll
    \/ Guard

SpecGuard == Init /\ [][NextGuard]_vars

UpdateProgress ==
    \E u \in Enrollers, n \in EnrollmentIds, pp \in ProgressValues :
        updateProgress(n, u.id, pp) /\ UNCHANGED <<sessionVars, raceVars, regVars>>

\* the life of an enrollment: created, progressed, completed or cancelled
NextEnroll ==
    \/ Create
    \/ Publish
    \/ Enroll
    \/ Unenroll
    \/ UpdateProgress

SpecEnroll == Init /\ [][NextEnroll]_vars

(***************************************************************************)
(* Properties of the session core.                                         *)
(***************************************************************************)

\* C1: a refresh presenting a refresh token that a later successful login or
\* refresh of the same identity has superseded fails with Unauthorized.
C1_SupersededRefreshFails ==
    \A t \in superseded : RefreshStatus(t) = "Unauthorized"

\* C2: after logout(id), an authenticated request presenting an access token
\* issued to id before the logout is rejected with Unauthorized, at every
\* later moment.
C2_PreLogoutAccessRejected ==
    \A t \in preLogout : IsAccessToken(t) => BearerStatus(t) = "Unauthorized"

C2_Witness ==
    \E t \in preLogout :
        /\ IsAccessToken(t)
        /\ VerifyAsync(t)
        /\ now > t.iat
        /\ validateUserById(t.sub) # None
        /\ CacheLive(blacklistStore[t.sub])
        /\ BearerStatus(t) = "Unauthorized"

\* C3: after logout(id), an access token minted by a later successful login of
\* id is accepted on authenticated requests (while unexpired, identity active).
C3_PostLogoutLoginAccepted ==
    \A t \in postLogout :
        (VerifyAsync(t) /\ validateUserById(t.sub) # None) => BearerStatus(t) = "OK"

\* C4: once logout(id) has set the revocation marker, no access or refresh
\* token issued to id before it is accepted, neither as a bearer credential
\* nor by refresh.
C4_MarkerInvalidatesAll ==
    \A t \in preLogout :
        t.type = Undefined =>
            /\ BearerStatus(t) = "Unauthorized"
            /\ RefreshStatus(t) = "Unauthorized"

\* C5: in every state and for every identity at most one token would be
\* accepted by refresh.
C5_AtMostOneRefresh ==
    \A id \in Ids :
        Cardinality({t \in issued : t.sub = id /\ RefreshStatus(t) = "OK"}) <= 1

C5_Witness ==
    \E t1 \in issued, t2 \in superseded :
        /\ t1 # t2
        /\ t1.sub = t2.sub
        /\ IsRefreshToken(t1)
        /\ VerifyAsync(t2)
        /\ RefreshStatus(t1) = "OK"
        /\ RefreshStatus(t2) = "Unauthorized"

\* C6: after one successful resetPassword(T), every later resetPassword(T)
\* fails with Unauthorized.
C6_ResetTokenOnce ==
    \A t \in consumed : ResetStatus(t) = "Unauthorized"

BothDone == \A p \in Procs : pc[p] = "done"

Concurrent == \A p \in Procs : presented[p] # None /\ presented[p].overlap

ExactlyOneResultValid ==
    \E w \in Procs :
        /\ RefreshStatus(minted[w].refreshToken) = "OK"
        /\ \A l \in Procs \ {w} : RefreshStatus(minted[l].refreshToken) = "Unauthorized"

\* C7: when two refresh calls of one identity ran concurrently and both have
\* completed, exactly one of the two resulting refresh tokens is valid and a
\* refresh presenting the other one fails with Unauthorized.
C7_ConcurrentRefreshOneValid ==
    [][(~BothDone /\ BothDone' /\ Concurrent') => ExactlyOneResultValid']_vars

WrongCurrent(id, c) == users[id] # None /\ ~BcryptCompare(c, users[id].password)

C9_RegisterThenLogin ==
    [][\A e \in Emails, p \in Passwords, r \in UserRole \cup {Undefined}, s \in Salts :
          (FindByEmail(e) = {} /\ register(e, p, r, s))
              => /\ LoginStatus(e, p)' = "OK"
                 /\ LoginTokens(e).accessToken'.exp > now'
                 /\ \A id \in Ids :
                        (users[id] = None /\ users'[id] # None)
                            => LoginTokens(e).accessToken'.sub = id]_vars

C9_Witness ==
    \E t \in issued :
        /\ IsAccessToken(t)
        /\ users[t.sub] # None
        /\ t.email = users[t.sub].email
        /\ VerifyAsync(t)
        /\ CacheLive(refreshStore[t.sub])
        /\ BearerStatus(t) = "OK"

OwnTagged == {<<OWN>>, OwnResource}

RequestsFor(c) == {r \in RouteRequests : extractResourceId(r) = c}

\* C10: on an endpoint tagged Own for an existing course C, the teacher who
\* owns C is allowed and every other teacher is denied with Forbidden.
C10_OwnPolicyTeachers ==
    \A c \in CourseIds, u \in Principals, pl \in OwnTagged : \A r \in RequestsFor(c) :
        (courses[c] # None /\ u.role = "teacher")
            => canActivate(FALSE, pl, u, r) =
                   IF courses[c].teacherId = u.id THEN "allow" ELSE "Forbidden"

C10_Witness ==
    /\ decision = "Forbidden"
    /\ \E c \in CourseIds, u \in Principals, v \in Principals :
          /\ courses[c] # None
          /\ u.role = "teacher" /\ v.role = "teacher" /\ u # v
          /\ canActivate(FALSE, OwnResource, u, Request(c, "", "", "")) = "allow"
          /\ canActivate(FALSE, OwnResource, v, Request(c, "", "", "")) = "Forbidden"

AdminTagged == {pl \in PolicyLists : Includes(pl, ADMIN)}

Admins == {u \in Principals : u.role = "admin"}

\* C11 (as stated): an admin calling an Admin-tagged action is allowed for any
\* resource id the request carries.
C11_AdminAnyResourceId ==
    \A u \in Admins, pl \in AdminTagged, id \in ResourceIds \ {""} :
        canActivate(FALSE, pl, u, Request(id, "", "", "")) = "allow"

\* C11 (amended): an admin calling an Admin-tagged action is allowed for every
\* existing resource, owned and enrolled in or not; for an id that resolves to
\* no resource the result is NotFound.
C11_AdminAnyExistingResource ==
    \A u \in Admins, pl \in AdminTagged, id \in ResourceIds \ {""} :
        canActivate(FALSE, pl, u, Request(id, "", "", "")) =
            IF checkResourceExists(id) THEN "allow" ELSE "NotFound"

C11_Witness ==
    /\ decision = "allow"
    /\ \E u \in Admins, c \in CourseIds :
          /\ checkResourceExists(c)
          /\ ~checkOwnership(c, u.id)
          /\ ~checkEnrollment(c, u.id)
          /\ enrollments # {}
          /\ canActivate(FALSE, AdminResource, u, Request(c, "", "", "")) = "allow"

EnrolledTagged == {pl \in PolicyLists : Includes(pl, ENROLLED)}

Students == {u \in Principals : u.role = "student"}

HoldsActiveEnrollment(u, c) ==
    \E e \in enrollments :
        e.studentId = u.id /\ e.courseId = c /\ e.status = "active"

\* C12: a student who holds an active enrollment in course C is allowed on
\* every endpoint tagged Enrolled on C and is denied with Forbidden on every
\* endpoint tagged Own without Enrolled on C.
C12_EnrolledStudent ==
    \A u \in Students, c \in CourseIds : \A r \in RequestsFor(c) :
        HoldsActiveEnrollment(u, c) =>
            /\ \A pl \in EnrolledTagged : canActivate(FALSE, pl, u, r) = "allow"
            /\ \A pl \in OwnTagged : canActivate(FALSE, pl, u, r) = "Forbidden"

C12_Witness ==
    \E u \in Students, c \in CourseIds :
        /\ HoldsActiveEnrollment(u, c)
        /\ courses[c].enrollmentCount = 1
        /\ canActivate(FALSE, <<ENROLLED>>, u, Request(c, "", "", "")) = "allow"
        /\ canActivate(FALSE, OwnResource, u, Request(c, "", "", "")) = "Forbidden"

\* an email no register call ever uses
UnknownEmail == "nobody@x.com"

LoginFailure(email, password) ==
    [kind |-> LoginStatus(email, password), message |-> LoginMessage(email, password)]

\* C13: every failing login gets the same error kind and the same message,
\* whether the email is unknown, the identity inactive or the password wrong.
C13_LoginFailuresIndistinguishable ==
    \A e1, e2 \in Emails \cup {UnknownEmail}, p1, p2 \in Passwords :
        (LoginStatus(e1, p1) # "OK" /\ LoginStatus(e2, p2) # "OK")
            => LoginFailure(e1, p1) = LoginFailure(e2, p2)

\* C14: forgotPassword returns the same acknowledgement for every email; a
\* call for an email of no identity mints and stores nothing, a call for an
\* email of an identity mints a reset token of that identity and stores a copy
\* under the identity's key.
C14_ForgotPasswordSameAck ==
    /\ [](\A e1, e2 \in Emails \cup {UnknownEmail} :
             ForgotPasswordResponse(e1) = ForgotPasswordResponse(e2))
    /\ [][\A e \in Emails \cup {UnknownEmail} :
             forgotPassword(e) =>
                 IF FindByEmail(e) = {}
                 THEN resetStore' = resetStore /\ issued' = issued
                 ELSE \E id \in FindByEmail(e) :
                         /\ CacheLive(resetStore[id])'
                         /\ IsResetToken(resetStore'[id].val)
                         /\ resetStore'[id].val.sub = id
                         /\ resetStore'[id].val \in issued'
                         /\ \A o \in Ids \ {id} : resetStore'[o] = resetStore[o]]_vars

C14_Witness ==
    \E id \in Ids :
        /\ users[id] # None
        /\ CacheLive(resetStore[id])
        /\ resetStore[id].val \in issued
        /\ ResetStatus(resetStore[id].val) = "OK"
        /\ FindByEmail(UnknownEmail) = {}

\* C15: while an identity is inactive or absent, every bearer use of a token
\* issued to it is rejected, every refresh with a token issued to it (its
\* stored refresh token included) fails with Unauthorized, and every login
\* with its email fails with Unauthorized.
C15_InactiveLockedOut ==
    \A id \in Ids :
        (users[id] = None \/ users[id].isActive = "false") =>
            /\ \A t \in issued :
                  t.sub = id => /\ BearerStatus(t) = "Unauthorized"
                                /\ RefreshStatus(t) = "Unauthorized"
            /\ \A e \in Emails \cup {UnknownEmail}, p \in Passwords :
                  (FindByEmail(e) = {} \/ id \in FindByEmail(e))
                      => LoginStatus(e, p) = "Unauthorized"

C15_Witness ==
    \E id \in Ids, t \in issued, r \in issued :
        /\ users[id] # None /\ users[id].isActive = "false"
        /\ t.sub = id /\ IsAccessToken(t) /\ VerifyAsync(t)
        /\ ~isTokenBlacklisted(id, t.iat)
        /\ CacheGet(refreshStore[id]) = r
        /\ BearerStatus(t) = "Unauthorized"
        /\ RefreshStatus(r) = "Unauthorized"
        /\ \E p \in Passwords : BcryptCompare(p, users[id].password)
                                  /\ LoginStatus(users[id].email, p) = "Unauthorized"

\* C16: no email ever belongs to two identities; a register call that ends
\* without creating an identity has failed with Conflict and left the users
\* table as it was, also when it ran concurrently with another register call
\* for the same email; a created identity has the requested role or student,
\* verified = false, active = true, and no token is issued.
C16_RegisterOncePerEmail ==
    /\ [](\A e \in Emails : Cardinality(FindByEmail(e)) <= 1)
    /\ [](\A p \in Procs : regPc[p] = "done" => regResult[p] \in {"OK", "Conflict"})
    /\ [][\A p \in Procs :
             registerInsert(p) =>
                 /\ issued' = issued
                 /\ regResult'[p] # "OK" => users' = users
                 /\ regResult'[p] = "OK" =>
                        \E id \in Ids :
                            /\ users[id] = None
                            /\ users'[id].email = regReq[p].email
                            /\ users'[id].role =
                                   (IF regReq[p].role = Undefined THEN "student"
                                    ELSE regReq[p].role)
                            /\ users'[id].isVerified = "false"
                            /\ users'[id].isActive = "true"]_vars
    /\ [][\A p \in Procs, dto \in RegisterDtos :
             (FindByEmail(dto.email) # {} /\ registerSelect(p, dto))
                 => (regResult'[p] = "Conflict" /\ users' = users)]_vars

PublicTagged == {pl \in PolicyLists : Includes(pl, PUBLIC)}

\* C17: when PUBLIC is among the actions an endpoint requires, canActivate
\* allows the request whoever the caller is, authenticated or not, and
\* whatever resource id the request carries, existing or not.
C17_PublicAllowsImmediately ==
    \A pl \in PublicTagged, u \in Principals \cup {NoUser}, r \in RouteRequests :
        canActivate(FALSE, pl, u, r) = "allow"

NonPublic == PolicyLists \ PublicTagged

\* C18: for an authenticated caller and a policy list without PUBLIC, a
\* request whose resource id is missing or resolves to no existing resource
\* gets NotFound, whatever the caller's role, ownership or enrollment.
C18_MissingResourceNotFound ==
    \A pl \in NonPublic, u \in Principals, r \in RouteRequests :
        ~checkResourceExists(extractResourceId(r))
            => canActivate(FALSE, pl, u, r) = "NotFound"

C18_Witness ==
    /\ decision = "NotFound"
    /\ \E c \in CourseIds, d \in CourseIds, u \in Admins :
          /\ checkResourceExists(c)
          /\ ~checkResourceExists(d)
          /\ canActivate(FALSE, AdminResource, u, Request(c, "", "", "")) = "allow"
          /\ canActivate(FALSE, AdminResource, u, Request(d, "", "", "")) = "NotFound"

Range(pl) == {pl[i] : i \in DOMAIN pl}

Satisfies(pl, u, c) ==
    \/ Includes(pl, PUBLIC)
    \/ Includes(pl, ADMIN) /\ u.role = "admin"
    \/ Includes(pl, OWN) /\ courses[c].teacherId = u.id
    \/ Includes(pl, ENROLLED) /\ HoldsActiveEnrollment(u, c)

Canonical == [pl \in PolicyLists |-> CHOOSE q \in PolicyLists : Range(q) = Range(pl)]

\* one list per set of actions, and the other lists that order the same actions
CanonicalLists == {Canonical[pl] : pl \in PolicyLists}

Orderings == [q \in CanonicalLists |-> {pl \in PolicyLists : pl # q /\ Range(pl) = Range(q)}]

\* the message of the final ForbiddenException spells out the list, and tells
\* any two lists apart
MessageNamesPolicies ==
    /\ \A u \in Principals, pl \in PolicyLists :
          ForbiddenMessage(pl, u) = "Access denied. Required permissions: " \o Join(pl, 1)
    /\ \A p1, p2 \in PolicyLists : p1 # p2 => Join(p1, 1) # Join(p2, 1)
    /\ Join(EnrolledOrOwnResource, 1) = "enrolled, own, admin"

\* C19: for an authenticated caller, an existing course and a non-empty
\* policy list P, canActivate allows exactly when PUBLIC is in P, or ADMIN is
\* in P and the caller is an admin, or OWN is in P and the caller owns the
\* course, or ENROLLED is in P and the caller holds an active enrollment;
\* otherwise it throws Forbidden with a message that lists P.  Two lists with
\* the same actions in a different order get the same decision.
C19_DecisionIsOrOfPolicies ==
    /\ MessageNamesPolicies
    /\ \A c \in CourseIds :
          courses[c] # None =>
              \A r \in RequestsFor(c), u \in Principals, q \in CanonicalLists :
                  LET d == canActivate(FALSE, q, u, r)
                  IN /\ d = IF Satisfies(q, u, c) THEN "allow" ELSE "Forbidden"
                     /\ \A pl \in Orderings[q] : canActivate(FALSE, pl, u, r) = d

C19_Witness ==
    \E u \in Principals, v \in Principals, c \in CourseIds :
        /\ courses[c] # None
        /\ HoldsActiveEnrollment(u, c)
        /\ ~HoldsActiveEnrollment(v, c) /\ v.role = "teacher" /\ courses[c].teacherId # v.id
        /\ canActivate(FALSE, <<OWN, ENROLLED>>, u, Request(c, "", "", "")) = "allow"
        /\ canActivate(FALSE, <<ENROLLED, OWN>>, u, Request(c, "", "", "")) = "allow"
        /\ canActivate(FALSE, <<OWN, ENROLLED>>, v, Request(c, "", "", "")) = "Forbidden"
        /\ ForbiddenMessage(<<OWN, ENROLLED>>, v) =
               "Access denied. Required permissions: own, enrolled"

\* the operations CoursesController guards with @OwnResource()
OwnerOperations == {"update", "delete", "publish", "unpublish"}

\* what the service answers to the caller the controller hands it (user.id)
ServiceStatus(op, id, userId) ==
    CASE op = "update" -> UpdateStatus(id, userId)
      [] op = "delete" -> DeleteStatus(id, userId)
      [] op = "publish" -> PublishStatus(id, userId)
      [] op = "unpublish" -> UnpublishStatus(id, userId)

\* the service's ownership check rejected the call
OwnershipRejected(op, id, userId) ==
    /\ ServiceStatus(op, id, userId).kind = "Forbidden"
    /\ ServiceStatus(op, id, userId).message \in
          {"You can only update your own courses",
           "You can only delete your own courses",
           "You can only publish your own courses",
           "You can only unpublish your own courses"}

\* C20: an administrator who is not the owner of an existing course passes
\* the resource guard of every owner-only operation (update, delete, publish,
\* unpublish) and is not rejected with Forbidden by the service's own
\* ownership check for that operation.
C20_AdminOwnerOperations ==
    \A u \in Admins, c \in CourseIds :
        (courses[c] # None /\ courses[c].teacherId # u.id) =>
            \A op \in OwnerOperations :
                /\ canActivate(FALSE, OwnResource, u, Request(c, "", "", "")) = "allow"
                /\ ~OwnershipRejected(op, c, u.id)

(***************************************************************************)
(* Properties of revocation.                                               *)
(***************************************************************************)
\* a logout of the identity has completed and no login of it has succeeded since
LoggedOut(id) ==
    /\ \E t \in preLogout : t.sub = id
    /\ ~\E t \in postLogout : t.sub = id

\* C21: once logout(id) has completed and until the next successful login of
\* id, no refresh token is stored for id and no refresh for id succeeds,
\* whatever refresh requests for id were in flight when logout ran.
C21_NoSessionAfterLogout ==
    \A id \in Ids :
        LoggedOut(id) =>
            /\ CacheGet(refreshStore[id]) = None
            /\ \A t \in issued : t.sub = id => RefreshStatus(t) # "OK"

PasswordChanges == {"changePassword", "resetPassword"}

C23_StalenessBounded ==
    \A id \in Ids :
        (revoked[id] # None /\ now > revoked[id].at + jwtAccessExpiresIn) =>
            \A t \in revoked[id].tokens : BearerStatus(t) = "Unauthorized"

\* C24: only access tokens are accepted as bearer credentials; a refresh
\* token or a reset token presented as the bearer token of an authenticated
\* request is rejected.
C24_OnlyAccessTokensAsBearer ==
    \A t \in issued :
        (IsRefreshToken(t) \/ IsResetToken(t)) => BearerStatus(t) = "Unauthorized"

\* some successful changePassword(id, ...) is the step taken
ChangePasswordSucceeds(id) ==
    \E c \in Passwords, n \in Passwords, sa \in Salts :
        ChangePasswordStatus(id, c) = "OK" /\ changePassword(id, c, n, sa)

LoginSucceeds(id) ==
    \E e \in Emails, p \in Passwords :
        LoginStatus(e, p) = "OK" /\ id \in FindByEmail(e) /\ login(e, p)

\* C26: a successful login(id) leaves no live revocation marker for id, and
\* no step other than a login or the passing of time removes a live marker.
C26_MarkerClearedByLogin ==
    [][\A id \in Ids :
          /\ LoginSucceeds(id) => ~CacheLive(blacklistStore'[id])
          /\ (~LoginSucceeds(id) /\ now' = now /\ CacheLive(blacklistStore[id]))
                => blacklistStore'[id] # None]_vars

\* the last remembered operation on the identity's session is a logout
LoggedOutLast(id) == revoked[id] # None /\ revoked[id].by = "logout"

IssueTimes == {t.iat : t \in issued} \cup {now - 1, now, now + 1}

\* a marker written by logout is in the cache and its ttl has not run out
MarkerStored(id) == blacklistStore[id] # None /\ now < blacklistStore[id].exp

\* C28: isTokenBlacklisted(id, tokenIssuedAt) is true exactly when a marker
\* is currently stored for id and its timestamp is >= tokenIssuedAt; it is
\* false for a smaller timestamp and when no marker is stored (never
\* written, or expired).
C28_IsRevokedIffMarkerCovers ==
    \A id \in Ids, iat \in IssueTimes :
        isTokenBlacklisted(id, iat) <=>
            (MarkerStored(id) /\ blacklistStore[id].val >= iat)

C28_Witness ==
    \E id \in Ids, t1 \in issued, t2 \in issued :
        /\ MarkerStored(id)
        /\ t1.sub = id /\ t2.sub = id
        /\ t1.iat <= blacklistStore[id].val /\ blacklistStore[id].val < t2.iat
        /\ isTokenBlacklisted(id, t1.iat) /\ ~isTokenBlacklisted(id, t2.iat)

\* the request has written its password hash
ResetApplied(p) == pc[p] \in {"resetUpdated", "resetDone"}

\* two reset requests that presented the same token and overlapped
SameTokenConcurrently(p, q) ==
    /\ p # q
    /\ presented[p] # None /\ presented[q] # None
    /\ pc[p] # "idle" /\ pc[q] # "idle"
    /\ presented[p].token = presented[q].token
    /\ presented[p].overlap /\ presented[q].overlap

\* C29: of two resetPassword calls that present the same valid reset token
\* concurrently, at most one gets past the stored-copy check and updates
\* the password hash.
C29_ConcurrentResetOnce ==
    \A p \in Procs, q \in Procs :
        SameTokenConcurrently(p, q) => ~(ResetApplied(p) /\ ResetApplied(q))

\* some forgotPassword for the identity is the step taken, and it stores a copy
ForgotPasswordStores(id) ==
    \E e \in Emails : id \in FindByEmail(e) /\ forgotPassword(e)

\* C30: once a later forgotPassword for the identity has stored its copy,
\* resetPassword with a reset token handed out to the identity earlier fails
\* with Unauthorized, also while that token is unexpired.
C30_EarlierResetTokenRefused ==
    [][\A id \in Ids :
          ForgotPasswordStores(id) =>
              \A t \in issued :
                  (IsResetToken(t) /\ t.sub = id) => ResetStatus(t)' = "Unauthorized"]_vars

(***************************************************************************)
(* Store failures.  A call to the cache or to the database may throw; the  *)
(* operators below give the outcome of a handler when the named store      *)
(* throws at the handler's first call to it.                               *)
(***************************************************************************)
Faults == {"cache", "db"}

\* the status of an exception that no handler code maps to a domain error
GenericFailure == "InternalServerError"

\* AuthService.refreshToken: the whole body is inside try/catch, and the
\* catch block throws UnauthorizedException
RefreshOutcome(token, fault) ==
    IF ~VerifyAsync(token) THEN "Unauthorized"
    ELSE IF fault = "cache" THEN "Unauthorized"
    ELSE LET storedToken == CacheGet(refreshStore[token.sub]) IN
         IF storedToken = None \/ storedToken # token THEN "Unauthorized"
         ELSE IF fault = "db" THEN "Unauthorized"
         ELSE IF validateUserById(token.sub) = None THEN "Unauthorized"
         ELSE "OK"

\* AuthService.resetPassword: the same try/catch shape
ResetOutcome(token, fault) ==
    IF ~VerifyAsync(token) THEN "Unauthorized"
    ELSE IF token.type # "reset" THEN "Unauthorized"
    ELSE IF fault = "cache" THEN "Unauthorized"
    ELSE LET storedToken == CacheGet(resetStore[token.sub]) IN
         IF storedToken = None \/ storedToken # token THEN "Unauthorized"
         ELSE IF fault = "db" THEN "Unauthorized"
         ELSE "OK"

\* ResourceGuard.canActivate when the database throws: checkResourceExists
\* catches the error and returns false
GuardOutcome(requiredActions, user, request, fault) ==
    IF requiredActions = NoActions \/ Len(requiredActions) = 0 THEN "allow"
    ELSE IF user = NoUser THEN "Forbidden"
    ELSE IF extractResourceId(request) = "" THEN "NotFound"
    ELSE IF fault = "db" THEN "NotFound"
    ELSE canActivate(FALSE, requiredActions, user, request)

\* C31: a store error during refresh, resetPassword or the resource guard
\* reaches the caller as a generic failure, never as Unauthorized, NotFound
\* or Forbidden.
C31_StoreErrorsAreGeneric ==
    /\ \A t \in issued :
          /\ VerifyAsync(t) => RefreshOutcome(t, "cache") = GenericFailure
          /\ RefreshStatus(t) = "OK" => RefreshOutcome(t, "db") = GenericFailure
          /\ (VerifyAsync(t) /\ IsResetToken(t)) => ResetOutcome(t, "cache") = GenericFailure
          /\ ResetStatus(t) = "OK" => ResetOutcome(t, "db") = GenericFailure
    /\ \A u \in Principals, c \in CourseIds :
          GuardOutcome(OwnResource, u, Request(c, "", "", ""), "db") = GenericFailure

EnrolledOnly == <<ENROLLED>>

\* the caller passes the guard of an endpoint whose only policy is Enrolled
PassesEnrolled(u, c) ==
    canActivate(FALSE, EnrolledOnly, u, Request(c, "", "", "")) = "allow"

\* the enrollment e leaves the status active in this step
LeavesActive(e) ==
    /\ e.status = "active"
    /\ \E f \in enrollments' :
          f.id = e.id /\ f.status \in {"completed", "cancelled"}

enrollSelect(p, studentId, courseId) ==
    /\ pc[p] = "idle"
    /\ IF \/ courses[courseId] = None
          \/ courses[courseId].status # "published"
          \/ \E e \in enrollments :
                /\ e.studentId = studentId
                /\ e.courseId = courseId
                /\ e.status \in {"active", "completed"}
          \/ courses[courseId].price > 0
       THEN UNCHANGED <<pc, presented>>
       ELSE /\ pc' = [pc EXCEPT ![p] = "enrollSelected"]
            /\ presented' = [presented EXCEPT
                    ![p] = [studentId |-> studentId, courseId |-> courseId]]
    /\ UNCHANGED <<minted, guardVars>>

\* the insert into enrollments
enrollInsert(p) ==
    /\ pc[p] = "enrollSelected"
    /\ \E n \in EnrollmentIds : \A e \in enrollments : e.id # n
    /\ LET id == CHOOSE n \in EnrollmentIds : \A e \in enrollments : e.id # n
       IN enrollments' = enrollments \cup
             {[id |-> id, studentId |-> presented[p].studentId,
               courseId |-> presented[p].courseId, status |-> "active",
               progressPercentage |-> 0]}
    /\ pc' = [pc EXCEPT ![p] = "enrollInserted"]
    /\ UNCHANGED <<presented, minted, courses, decision>>

\* the update of courses.enrollmentCount and the response
enrollCount(p) ==
    /\ pc[p] = "enrollInserted"
    /\ courses' = [courses EXCEPT ![presented[p].courseId].enrollmentCount = @ + 1]
    /\ pc' = [pc EXCEPT ![p] = "idle"]
    /\ presented' = [presented EXCEPT ![p] = None]
    /\ UNCHANGED <<minted, enrollments, decision>>

EnrollSelect ==
    \E p \in Procs, u \in Enrollers, c \in CourseIds :
        enrollSelect(p, u.id, c) /\ UNCHANGED <<sessionVars, regVars>>

EnrollInsert == \E p \in Procs : enrollInsert(p) /\ UNCHANGED <<sessionVars, regVars>>

EnrollCount == \E p \in Procs : enrollCount(p) /\ UNCHANGED <<sessionVars, regVars>>

NextEnrollRace ==
    \/ Create
    \/ Publish
    \/ EnrollSelect
    \/ EnrollInsert
    \/ EnrollCount
    \/ UpdateProgress

SpecEnrollRace == Init /\ [][NextEnrollRace]_vars

\* C33: in every reachable state at most one enrollment with status active
\* or completed exists for a (student, course) pair, also when enrollStudent
\* calls for the same pair run concurrently.
C33_OneLiveEnrollmentPerPair ==
    \A e, f \in enrollments :
        /\ e.studentId = f.studentId
        /\ e.courseId = f.courseId
        /\ e.status \in {"active", "completed"}
        /\ f.status \in {"active", "completed"}
        => e = f

\* every request over the four places an id can arrive in, each empty or a course id
AnyRequests ==
    {Request(a, b, c, d) : a, b, c, d \in CourseIds \cup {""}}

\* @ResourceAccess() with no action
EmptyActions == <<>>

\* the handlers called with any such request: a resource policy, an empty
\* one, or none; the caller with or without an identity
GuardAny ==
    \E u \in Principals \cup {NoUser}, r \in AnyRequests,
       pl \in {PublicResource, EmptyActions, NoActions} :
        /\ decision' = canActivate(FALSE, pl, u, r)
        /\ UNCHANGED <<courses, enrollments, sessionVars, raceVars, regVars>>

NextExtract ==
    \/ Create
    \/ Publish
    \/ GuardAny

SpecExtract == Init /\ [][NextExtract]_vars

\* the places extractResourceId reads, in the order it reads them
SourcesOf(request) ==
    <<request.params.id, request.params.courseId,
      request.body.courseId, request.query.courseId>>

\* C34: extractResourceId returns the first non-empty value in the order path
\* parameter id, path parameter courseId, body field courseId, query field
\* courseId; a later source is used only when all earlier ones are empty, and
\* when all are empty the request of an authenticated caller fails with NotFound.
C34_FirstNonEmptySourceWins ==
    \A r \in AnyRequests :
        LET s == SourcesOf(r) IN
        /\ \A i \in 1..Len(s) :
              (s[i] # "" /\ \A j \in 1..(i - 1) : s[j] = "")
                  => extractResourceId(r) = s[i]
        /\ (\A i \in 1..Len(s) : s[i] = "") =>
              /\ extractResourceId(r) = ""
              /\ \A u \in Principals, pl \in PolicyLists :
                    canActivate(FALSE, pl, u, r) = "NotFound"

\* the body names an existing course and the query a missing one: the guard
\* decided on the body's course
C34_Witness ==
    \E c, d \in CourseIds, u \in Principals :
        /\ courses[c] # None
        /\ courses[d] = None
        /\ canActivate(FALSE, PublicResource, u, Request("", "", c, d)) = "allow"
        /\ canActivate(FALSE, PublicResource, u, Request("", "", d, c)) = "NotFound"
        /\ canActivate(FALSE, PublicResource, u, Request("", d, c, c)) = "NotFound"
        /\ canActivate(FALSE, PublicResource, u, Request(c, d, d, d)) = "allow"
        /\ decision = "NotFound"

RefreshSucceeds(id) ==
    \E t \in issued :
        t.sub = id /\ RefreshStatus(t) = "OK" /\ refreshToken(t)

\* C35: every refresh token returned by a successful login or refresh differs
\* from every refresh token issued to the same identity before, also when two
\* are minted within the same clock second.
C35_RefreshTokensNeverRepeat ==
    [][\A id \in Ids :
          (LoginSucceeds(id) \/ RefreshSucceeds(id)) =>
              \A t \in issued :
                  t.sub = id /\ IsRefreshToken(t) => refreshStore'[id].val # t]_vars

Inactive(id) == users[id] # None /\ users[id].isActive = "false"

\* C36: while an identity is inactive its password hash is not changed and
\* no reset token is minted for it: forgotPassword mints none and
\* resetPassword does not update the hash.
C36_InactiveIdentityUntouched ==
    [][\A id \in Ids :
          Inactive(id) =>
              /\ users'[id].password = users[id].password
              /\ \A t \in issued' \ issued : ~(t.sub = id /\ IsResetToken(t))]_vars

\* C37: deactivateUser and reactivateUser leave the Session Store as it is;
\* when an inactive identity is reactivated, the refresh token stored for it
\* and every unexpired access token of it that no live marker covers, issued
\* before the deactivation, are accepted again.
C37_DeactivationKeepsSessions ==
    [][\A id \in Ids :
          /\ (users[id] # None /\ (deactivateUser(id) \/ reactivateUser(id))) =>
                /\ refreshStore' = refreshStore
                /\ blacklistStore' = blacklistStore
                /\ resetStore' = resetStore
          /\ (Inactive(id) /\ reactivateUser(id)) =>
                \A t \in issued :
                    t.sub = id =>
                      /\ BearerStatus(t) = "Unauthorized"
                      /\ RefreshStatus(t) = "Unauthorized"
                      /\ (IsAccessToken(t) /\ VerifyAsync(t)
                            /\ ~isTokenBlacklisted(id, t.iat))
                           => BearerStatus(t)' = "OK"
                      /\ (IsRefreshToken(t) /\ VerifyAsync(t)
                            /\ CacheGet(refreshStore[id]) = t)
                           => RefreshStatus(t)' = "OK"]_vars

\* a deactivated identity with a stored refresh token and an unexpired,
\* unrevoked access token, both refused until the reactivation
C37_Witness ==
    \E id \in Ids : \E a, r \in issued :
        /\ Inactive(id)
        /\ a.sub = id /\ IsAccessToken(a) /\ VerifyAsync(a)
        /\ ~isTokenBlacklisted(id, a.iat)
        /\ BearerStatus(a) = "Unauthorized"
        /\ r.sub = id /\ IsRefreshToken(r) /\ VerifyAsync(r)
        /\ CacheGet(refreshStore[id]) = r
        /\ RefreshStatus(r) = "Unauthorized"

\* C38: public registration creates no admin: whatever role the request
\* supplies, the created identity has the role student or teacher.
C38_RegisterCreatesNoAdmin ==
    \A id \in Ids : users[id] # None => users[id].role \in {"student", "teacher"}

\* the enrollments of course c that enrollStudent created and none cancelled
NotCancelled(c) ==
    {e \in enrollments : e.courseId = c /\ e.status # "cancelled"}

\* C39: for every course, enrollmentCount is non-negative and equals the
\* number of its enrollments created by enrollStudent and not cancelled, after
\* any sequence of enrollStudent and unenrollStudent calls.
C39_EnrollmentCountMatches ==
    \A c \in CourseIds :
        courses[c] # None =>
            /\ courses[c].enrollmentCount >= 0
            /\ courses[c].enrollmentCount = Cardinality(NotCancelled(c))

\* C40: a guarded endpoint that declares no resource policy (an empty list or
\* none) is allowed for every caller, with or without an identity and
\* whatever resource id the request carries, existing or not.
C40_NoPolicyAllowsAll ==
    \A u \in Principals \cup {NoUser}, r \in AnyRequests \cup RouteRequests :
        /\ canActivate(FALSE, NoActions, u, r) = "allow"
        /\ canActivate(FALSE, EmptyActions, u, r) = "allow"

\* no course exists and the caller has no identity: a policy would refuse,
\* the guard without one allowed
C40_Witness ==
    /\ decision = "allow"
    /\ \A c \in CourseIds : courses[c] = None
    /\ \A r \in AnyRequests, u \in Principals \cup {NoUser} :
          canActivate(FALSE, PublicResource, u, r) # "allow"
    /\ canActivate(FALSE, EmptyActions, NoUser, Request("", "", "", "")) = "allow"

====
